---------------------------- MODULE Spec2Model ----------------------------
(***************************************************************************)
(* Loan amortization and maturity bucketing (IRRBB / LCR / NSFR).          *)
(*                                                                         *)
(* Conventions of the model:                                               *)
(*  - a calendar date is a record [y, m, d];                               *)
(*  - money is an integer number of cents, so round(x, 2) of the source    *)
(*    is rounding of an exact rational to the nearest cent;                *)
(*  - an annual rate is a fraction [num, den] (0.12 is [12, 100]);         *)
(*  - the labels "≤ 1 bulan" and "≤30D" are written "<= 1 bulan" and       *)
(*    "<=30D";                                                             *)
(*  - a DataFrame is a record [columns, data]: the column names and the    *)
(*    rows, each row a tuple of cells aligned with the columns.            *)
(***************************************************************************)
EXTENDS Integers, Sequences, FiniteSets, TLC

(***************************************************************************)
(* Bounds of the model                                                     *)
(***************************************************************************)
\* the far maturities lie this many years after the reporting dates
LongTermYears == 21
\* annuity loans with a non-zero rate are enumerated up to this many periods
MaxAnnuityPeriods == 3
\* a portfolio has at most this many input rows
MaxLoans == 2

(***************************************************************************)
(* Calendar arithmetic                                                     *)
(***************************************************************************)
Date(y, m, d) == [y |-> y, m |-> m, d |-> d]

IsLeap(y) == (y % 4 = 0) /\ ((y % 100 # 0) \/ (y % 400 = 0))

\* calendar.monthrange(year, month)[1]
DaysInMonth(y, m) ==
    IF m = 2 THEN (IF IsLeap(y) THEN 29 ELSE 28)
    ELSE IF m \in {4, 6, 9, 11} THEN 30 ELSE 31

RECURSIVE DaysBeforeMonth(_, _)
DaysBeforeMonth(y, m) ==
    IF m = 1 THEN 0 ELSE DaysBeforeMonth(y, m - 1) + DaysInMonth(y, m - 1)

\* proleptic Gregorian ordinal of a date: the difference of two ordinals is
\* (date1 - date2).days
Ordinal(dt) ==
    LET y1 == dt.y - 1
    IN  365 * y1 + (y1 \div 4) - (y1 \div 100) + (y1 \div 400)
          + DaysBeforeMonth(dt.y, dt.m) + dt.d

DateLE(a, b) == Ordinal(a) <= Ordinal(b)
DateLT(a, b) == Ordinal(a) < Ordinal(b)

\* (b - a).days
DaysBetween(a, b) == Ordinal(b) - Ordinal(a)

\* (b.year - a.year) * 12 + (b.month - a.month)
MonthsBetween(a, b) == (b.y - a.y) * 12 + (b.m - a.m)

IsDate(dt) == dt.m \in 1..12 /\ dt.d \in 1..DaysInMonth(dt.y, dt.m)

Min(a, b) == IF a <= b THEN a ELSE b
Max(a, b) == IF a >= b THEN a ELSE b

(***************************************************************************)
(* Amortization.generate_payment_dates                                     *)
(***************************************************************************)
\* the month after (year, month), with the year roll-over
NextMonth(ym) ==
    IF ym.m + 1 > 12 THEN [y |-> ym.y + 1, m |-> 1]
    ELSE [y |-> ym.y, m |-> ym.m + 1]

\* the month of the first candidate date
StartMonth(reporting_date, end_date) ==
    IF reporting_date.d >= end_date.d
    THEN NextMonth([y |-> reporting_date.y, m |-> reporting_date.m])
    ELSE [y |-> reporting_date.y, m |-> reporting_date.m]

\* the candidate date of a month: the anchor day clamped to the month's end
CandidateUnclamped(ym, anchor_day) == Date(ym.y, ym.m, Min(anchor_day, 28))

Candidate(ym, anchor_day) ==
    Date(ym.y, ym.m, Min(anchor_day, DaysInMonth(ym.y, ym.m)))

\* the while-loop: emit the candidate of each successive month until one
\* exceeds end_date.  CandidateAt is the candidate of the k-th month from ym
\* (later months give later candidates); the loop breaks at the first k
\* whose candidate lies after end_date, which is at the latest the month
\* after end_date's
MonthAt(ym, k) ==
    LET n == (ym.y * 12 + (ym.m - 1)) + (k - 1)
    IN  [y |-> n \div 12, m |-> (n % 12) + 1]

PaymentDatesFrom(ym, end_date) ==
    LET CandidateAt(k) == Candidate(MonthAt(ym, k), end_date.d)
        last == Max(0, MonthsBetween(Date(ym.y, ym.m, 1), end_date) + 1)
        n == CHOOSE k \in 0..last :
                /\ DateLT(end_date, CandidateAt(k + 1))
                /\ (k = 0 \/ DateLE(CandidateAt(k), end_date))
    IN  [i \in 1..n |-> CandidateAt(i)]

generate_payment_dates(reporting_date, end_date) ==
    PaymentDatesFrom(StartMonth(reporting_date, end_date), end_date)

(***************************************************************************)
(* bucket.py: the three stand-alone classifiers                            *)
(***************************************************************************)
\* BucketIRRBB.MONTH_EDGES without its last edge np.inf: the last interval
\* is open-ended
MONTH_EDGES == <<1, 3, 6, 9, 12, 18, 24, 36, 48, 60, 72, 84, 96, 108, 120, 180, 240>>

MONTH_LABELS ==
    <<"1-3 bulan", "3-6 bulan", "6-9 bulan", "9-12 bulan", "1-1.5Y", "1.5-2Y",
      "2-3Y", "3-4Y", "4-5Y", "5-6Y", "6-7Y", "7-8Y", "8-9Y", "9-10Y",
      "10-15Y", "15-20Y", "> 20Y">>

\* pd.cut(x, bins = edges + [np.inf], labels, right = True, include_lowest):
\* the label of the interval (edges[i], edges[i+1]] holding x, "nan" (NaN)
\* when no interval holds it; include_lowest closes the first interval on
\* the left
cut(x, edges, labels, include_lowest) ==
    IF x < edges[1] \/ (x = edges[1] /\ ~include_lowest) THEN "nan"
    ELSE IF x = edges[1] THEN labels[1]
    ELSE labels[CHOOSE i \in 1..Len(edges) :
                   edges[i] < x /\ (i = Len(edges) \/ x <= edges[i + 1])]

\* BucketIRRBB.get_bucket: pd.cut is called without include_lowest
BucketIRRBB_get_bucket(start_date, end_date) ==
    IF DaysBetween(start_date, end_date) <= 30 THEN "<= 1 bulan"
    ELSE cut(MonthsBetween(start_date, end_date), MONTH_EDGES, MONTH_LABELS, FALSE)

LCR_LABELS == <<"<=30D", ">30D">>

BucketLCR_get_bucket(reporting_date, end_date) ==
    IF DaysBetween(reporting_date, end_date) <= 30 THEN "<=30D" ELSE ">30D"

NSFR_LABELS == <<"<6M", "6-12M", ">12M">>

BucketNSFR_get_bucket(reporting_date, end_date) ==
    LET m == MonthsBetween(reporting_date, end_date)
    IN  IF m < 6 THEN "<6M" ELSE IF m <= 12 THEN "6-12M" ELSE ">12M"

IRRBB_LABELS == <<"<= 1 bulan">> \o MONTH_LABELS

Range(s) == {s[i] : i \in DOMAIN s}

(***************************************************************************)
(* Exact arithmetic on amounts.  Every amount of a schedule is an exact    *)
(* rational  p * c / d  cents, p the outstanding in cents.                 *)
(***************************************************************************)
RECURSIVE Gcd(_, _)
Gcd(a, b) == IF b = 0 THEN a ELSE Gcd(b, a % b)

RECURSIVE Pow(_, _)
Pow(b, n) == IF n = 0 THEN 1 ELSE b * Pow(b, n - 1)

\* <<(a * b) \div c, (a * b) % c>> for a, b >= 0 and c > 0, computed by
\* doubling so that no intermediate value exceeds 2 * c
RECURSIVE MulDivMod(_, _, _)
MulDivMod(a, b, c) ==
    IF b = 0 THEN <<0, 0>>
    ELSE LET h  == MulDivMod(a, b \div 2, c)
             q2 == 2 * h[1] + ((2 * h[2]) \div c)
             r2 == (2 * h[2]) % c
             s  == r2 + (a % c)
         IN  IF b % 2 = 0 THEN <<q2, r2>>
             ELSE <<q2 + (a \div c) + (s \div c), s % c>>

\* round(p * c / d, 2) of an amount in currency units, i.e. the nearest
\* whole number of cents, ties to even
Round2(p, c, d) ==
    LET qr == MulDivMod(c, p, d)
    IN  IF 2 * qr[2] > d THEN qr[1] + 1
        ELSE IF 2 * qr[2] = d THEN qr[1] + (qr[1] % 2)
        ELSE qr[1]

(***************************************************************************)
(* model.py / extractor.py: the Loan built from an input row               *)
(***************************************************************************)
\* a blank spreadsheet cell (float NaN); pandas never reads a cell as the
\* text "NaN", so the string stands for the float without ambiguity
NaN == "NaN"

\* str.lower on the texts the model enumerates
Lower(s) ==
    CASE s = "YES" -> "yes"
      [] s = "No" -> "no"
      [] OTHER -> s

\* Loan(...) of Extractor._process_amount: a blank Installment becomes "no",
\* Method is taken as it is when the sheet has the column and defaults to
\* "annuity" only when the column is missing
LoanOf(row, has_method) ==
    [reporting_date |-> row.reporting_date,
     end_date       |-> row.end_date,
     account_id     |-> row.account_id,
     outstanding    |-> row.outstanding,
     interest_rate  |-> row.interest_rate,
     installment    |-> IF row.installment = NaN THEN "no" ELSE row.installment,
     method         |-> IF has_method THEN row.method ELSE "annuity"]

(***************************************************************************)
(* Amortization.schedule                                                   *)
(***************************************************************************)
\* r = annual_rate / 12 as a reduced fraction [n, d]
MonthlyRate(interest_rate) ==
    LET g == Gcd(interest_rate.num, 12 * interest_rate.den)
    IN  [n |-> interest_rate.num \div g, d |-> (12 * interest_rate.den) \div g]

ScheduleRow(i, pay_date, p, payC, prinC, intC, balC, d) ==
    [period            |-> i,
     payment_date      |-> pay_date,
     payment           |-> Round2(p, payC, d),
     principal         |-> Round2(p, prinC, d),
     interest          |-> Round2(p, intC, d),
     remaining_balance |-> Round2(p, Max(balC, 0), d)]

\* the sum of s[lo..hi], by halving
RECURSIVE SumSeq(_, _, _)
SumSeq(s, lo, hi) ==
    IF lo > hi THEN 0
    ELSE IF lo = hi THEN s[lo]
    ELSE LET mid == (lo + hi) \div 2
         IN  SumSeq(s, lo, mid) + SumSeq(s, mid + 1, hi)

\* installment = "no": amounts over the denominator r.d; the balance after
\* period i is the principal less the principal payments made up to i
BulletPrincipalEvery(i, periods, r) == r.d

BulletPrincipal(i, periods, r) == IF i = periods THEN r.d ELSE 0

BulletRows(p, r, payment_dates) ==
    LET periods == Len(payment_dates)
        monthly_interest == r.n
        principal_payment == [i \in 1..periods |-> BulletPrincipal(i, periods, r)]
        balance(i) == r.d - SumSeq(principal_payment, 1, i)
    IN  [i \in 1..periods |->
            ScheduleRow(i, payment_dates[i], p,
                        principal_payment[i] + monthly_interest,
                        principal_payment[i],
                        monthly_interest, balance(i), r.d)]

\* installment = "yes", method = "flat": amounts over periods * r.d
FlatInterestDeclining(i, periods, r) == (periods - i + 1) * r.n

FlatInterest(i, periods, r) == periods * r.n

FlatRows(p, r, payment_dates) ==
    LET periods == Len(payment_dates)
        monthly_principal == r.d
        balance(i) == periods * r.d - i * monthly_principal
    IN  [i \in 1..periods |->
            ScheduleRow(i, payment_dates[i], p,
                        monthly_principal + FlatInterest(i, periods, r),
                        monthly_principal,
                        FlatInterest(i, periods, r), balance(i), periods * r.d)]

\* npf.pmt(r, periods, -principal) = principal * r * (1+r)^n / ((1+r)^n - 1),
\* and principal / periods when r = 0, as [c, d]: pmt = principal * c / d
Pmt(r, periods) ==
    IF r.n # 0
    THEN LET g == r.d + r.n
         IN  [c |-> r.n * Pow(g, periods),
              d |-> r.d * (Pow(g, periods) - Pow(r.d, periods))]
    ELSE [c |-> 1, d |-> periods]

\* installment = "yes", method = "annuity": amounts over Pmt(r, periods).d.
\* The balance after each period (index 0: the principal), with
\* interest = balance * r, principal_payment = pmt - interest and
\* balance -= principal_payment; the balance is a multiple of r.d in every
\* period, so balance * r is exact
AnnuityBalanceGrowing(r, periods) ==
    LET pmt == Pmt(r, periods)
        bal[i \in 0..periods] ==
            IF i = 0 THEN pmt.d
            ELSE bal[i - 1] + (pmt.c - (bal[i - 1] \div r.d) * r.n)
    IN  bal

AnnuityBalance(r, periods) ==
    LET pmt == Pmt(r, periods)
        bal[i \in 0..periods] ==
            IF i = 0 THEN pmt.d
            ELSE bal[i - 1] - (pmt.c - (bal[i - 1] \div r.d) * r.n)
    IN  bal

\* interest = balance * r of period i, on the balance before the period
AnnuityInterest(r, periods, i) ==
    (AnnuityBalance(r, periods)[i - 1] \div r.d) * r.n

AnnuityRows(p, r, payment_dates) ==
    LET periods == Len(payment_dates)
        pmt == Pmt(r, periods)
    IN  [i \in 1..periods |->
            ScheduleRow(i, payment_dates[i], p, pmt.c,
                        pmt.c - AnnuityInterest(r, periods, i),
                        AnnuityInterest(r, periods, i),
                        AnnuityBalance(r, periods)[i], pmt.d)]

Raised(e) == [status |-> e, rows |-> << >>]
Returned(rows) == [status |-> "ok", rows |-> rows]

\* principal / periods divides by zero when no payment date is generated, in
\* the flat branch and in the annuity branch at rate 0 (npf.pmt at a
\* non-zero rate raises nothing and the loop then adds no row)
schedule(loan) ==
    IF loan.method = NaN THEN Raised("AttributeError")
    ELSE
    LET p == loan.outstanding
        method == Lower(loan.method)
        installment == Lower(loan.installment)
        payment_dates == generate_payment_dates(loan.reporting_date, loan.end_date)
        r == MonthlyRate(loan.interest_rate)
    IN  IF DateLE(loan.end_date, loan.reporting_date) THEN Returned(<< >>)
        ELSE IF installment = "no" THEN Returned(BulletRows(p, r, payment_dates))
        ELSE IF installment = "yes"
             THEN IF method = "annuity"
                  THEN IF r.n = 0 /\ Len(payment_dates) = 0
                       THEN Raised("ZeroDivisionError")
                       ELSE Returned(AnnuityRows(p, r, payment_dates))
                  ELSE IF method = "flat"
                  THEN IF Len(payment_dates) = 0
                       THEN Raised("ZeroDivisionError")
                       ELSE Returned(FlatRows(p, r, payment_dates))
                  ELSE Raised("ValueError: method must be 'annuity' or 'flat'")
        ELSE Raised("ValueError: installment must be 'yes' or 'no'")

(***************************************************************************)
(* The aggregators of Amortization                                         *)
(***************************************************************************)
DataFrame(columns, data) == [columns |-> columns, data |-> data]

\* df["value"] of the tall aggregators and of the flattened IRRBB one
PlainValue(row, bucket, value_type) ==
    IF value_type = "principal" THEN row.principal
    ELSE IF value_type = "interest" THEN row.interest
    ELSE row.principal + row.interest

\* df["value"] of get_bucket_lcr_flat
LcrFlatValuePlain(row, bucket, value_type) ==
    IF value_type = "principal" THEN row.principal
    ELSE IF value_type = "interest" THEN row.interest
    ELSE row.principal + row.interest

LcrFlatValue(row, bucket, value_type) ==
    IF value_type = "principal" THEN row.principal
    ELSE IF value_type = "interest"
         THEN (IF bucket = "<=30D" THEN row.interest ELSE 0)
    ELSE row.principal + (IF bucket = "<=30D" THEN row.interest ELSE 0)

\* df["value"] of get_bucket_nsfr_flat
NsfrFlatValue(row, bucket, value_type) ==
    IF value_type = "principal" THEN row.principal
    ELSE IF value_type = "interest" THEN 0
    ELSE row.principal + row.interest

\* df["bucket"] of the IRRBB aggregators: pd.cut(..., include_lowest=True)
\* followed by astype(str)
IrrbbBucketOfOpenLowest(reporting_date, row) ==
    IF DaysBetween(reporting_date, row.payment_date) <= 30 THEN "<= 1 bulan"
    ELSE cut(MonthsBetween(reporting_date, row.payment_date),
             MONTH_EDGES, MONTH_LABELS, FALSE)

IrrbbBucketOf(reporting_date, row) ==
    IF DaysBetween(reporting_date, row.payment_date) <= 30 THEN "<= 1 bulan"
    ELSE cut(MonthsBetween(reporting_date, row.payment_date),
             MONTH_EDGES, MONTH_LABELS, TRUE)

LcrBucketOf(reporting_date, row) ==
    IF DaysBetween(reporting_date, row.payment_date) <= 30 THEN "<=30D" ELSE ">30D"

\* np.select(conditions, choices, default=">12M")
NsfrBucketOf(reporting_date, row) ==
    LET months == MonthsBetween(reporting_date, row.payment_date)
    IN  IF months < 6 THEN "<6M"
        ELSE IF months >= 6 /\ months <= 12 THEN "6-12M"
        ELSE IF months > 12 THEN ">12M"
        ELSE ">12M"

\* df.groupby("bucket")["value"].sum() at one label; bv is the sequence of
\* the <<bucket, value>> of the rows
GroupSum(bv, label) ==
    SumSeq([i \in 1..Len(bv) |-> IF bv[i][1] = label THEN bv[i][2] ELSE 0],
           1, Len(bv))

\* .reindex(labels, fill_value=0).reset_index(): one row per label
TallResult(bv, labels) ==
    DataFrame(<<"bucket", "value">>,
              [i \in 1..Len(labels) |-> <<labels[i], GroupSum(bv, labels[i])>>])

\* .reindex(labels, fill_value=0).to_frame().T: one row, one column per label
FlatResult(bv, labels) ==
    DataFrame(labels, <<[i \in 1..Len(labels) |-> GroupSum(bv, labels[i])]>>)

LabelsOf(bucket_type) ==
    CASE bucket_type = "irrbb" -> IRRBB_LABELS
      [] bucket_type = "lcr"   -> LCR_LABELS
      [] bucket_type = "nsfr"  -> NSFR_LABELS

\* Amortization._empty_bucket_result: always the tall layout
empty_bucket_result(bucket_type) ==
    LET labels == LabelsOf(bucket_type)
    IN  DataFrame(<<"bucket", "value">>, [i \in 1..Len(labels) |-> <<labels[i], 0>>])

Failed(e) == [status |-> e, df |-> DataFrame(<< >>, << >>)]
Result(df) == [status |-> "ok", df |-> df]

get_bucket_irrbb(loan, value_type) ==
    LET sched == schedule(loan)
        bv == [i \in 1..Len(sched.rows) |->
                 LET b == IrrbbBucketOf(loan.reporting_date, sched.rows[i])
                 IN  <<b, PlainValue(sched.rows[i], b, value_type)>>]
    IN  IF sched.status # "ok" THEN Failed(sched.status)
        ELSE IF sched.rows = << >> THEN Result(empty_bucket_result("irrbb"))
        ELSE Result(TallResult(bv, IRRBB_LABELS))

get_bucket_lcr(loan, value_type) ==
    LET sched == schedule(loan)
        bv == [i \in 1..Len(sched.rows) |->
                 LET b == LcrBucketOf(loan.reporting_date, sched.rows[i])
                 IN  <<b, PlainValue(sched.rows[i], b, value_type)>>]
    IN  IF sched.status # "ok" THEN Failed(sched.status)
        ELSE IF sched.rows = << >> THEN Result(empty_bucket_result("lcr"))
        ELSE Result(TallResult(bv, LCR_LABELS))

get_bucket_nsfr(loan, value_type) ==
    LET sched == schedule(loan)
        bv == [i \in 1..Len(sched.rows) |->
                 LET b == NsfrBucketOf(loan.reporting_date, sched.rows[i])
                 IN  <<b, PlainValue(sched.rows[i], b, value_type)>>]
    IN  IF sched.status # "ok" THEN Failed(sched.status)
        ELSE IF sched.rows = << >> THEN Result(empty_bucket_result("nsfr"))
        ELSE Result(TallResult(bv, NSFR_LABELS))

get_bucket_irrbb_flat(loan, value_type) ==
    LET sched == schedule(loan)
        bv == [i \in 1..Len(sched.rows) |->
                 LET b == IrrbbBucketOf(loan.reporting_date, sched.rows[i])
                 IN  <<b, PlainValue(sched.rows[i], b, value_type)>>]
    IN  IF sched.status # "ok" THEN Failed(sched.status)
        ELSE IF sched.rows = << >> THEN Result(empty_bucket_result("irrbb"))
        ELSE Result(FlatResult(bv, IRRBB_LABELS))

get_bucket_lcr_flat(loan, value_type) ==
    LET sched == schedule(loan)
        bv == [i \in 1..Len(sched.rows) |->
                 LET b == LcrBucketOf(loan.reporting_date, sched.rows[i])
                 IN  <<b, LcrFlatValue(sched.rows[i], b, value_type)>>]
    IN  IF sched.status # "ok" THEN Failed(sched.status)
        ELSE IF sched.rows = << >> THEN Result(empty_bucket_result("lcr"))
        ELSE Result(FlatResult(bv, LCR_LABELS))

get_bucket_nsfr_flat(loan, value_type) ==
    LET sched == schedule(loan)
        bv == [i \in 1..Len(sched.rows) |->
                 LET b == NsfrBucketOf(loan.reporting_date, sched.rows[i])
                 IN  <<b, NsfrFlatValue(sched.rows[i], b, value_type)>>]
    IN  IF sched.status # "ok" THEN Failed(sched.status)
        ELSE IF sched.rows = << >> THEN Result(empty_bucket_result("nsfr"))
        ELSE Result(FlatResult(bv, NSFR_LABELS))

(***************************************************************************)
(* extractor.py: the combined record of a loan and the output table        *)
(***************************************************************************)
Width(df) == Len(df.columns)
Height(df) == Len(df.data)

\* row i of a frame, filled with NaN when the frame is shorter
PadRow(df, i) ==
    IF i <= Height(df) THEN df.data[i] ELSE [k \in 1..Width(df) |-> NaN]

\* pd.concat([a, b, c], axis=1) of frames with the same kind of index: the
\* columns side by side, as many rows as the longest frame
concat_axis1(a, b, c) ==
    DataFrame(a.columns \o b.columns \o c.columns,
              [i \in 1..Max(Height(a), Max(Height(b), Height(c))) |->
                  PadRow(a, i) \o PadRow(b, i) \o PadRow(c, i)])

InsertAt(sq, loc, x) == SubSeq(sq, 1, loc) \o <<x>> \o SubSeq(sq, loc + 1, Len(sq))

\* df.insert(loc, column, value) with a scalar value
insert(df, loc, column, value) ==
    DataFrame(InsertAt(df.columns, loc, column),
              [i \in 1..Height(df) |-> InsertAt(df.data[i], loc, value)])

\* combined: the three frames side by side behind the two leading columns
CombinedFrame(loan, lcr, nsfr, irrbb, remaining_days) ==
    IF lcr.status # "ok" THEN Failed(lcr.status)
    ELSE IF nsfr.status # "ok" THEN Failed(nsfr.status)
    ELSE IF irrbb.status # "ok" THEN Failed(irrbb.status)
    ELSE Result(insert(insert(concat_axis1(lcr.df, nsfr.df, irrbb.df),
                              0, "account_id", loan.account_id),
                       1, "remaining_days_to_maturity", remaining_days))

\* the body of the loop of Extractor._process_amount for a Loan
CombinedOf(loan, value_type) ==
    CombinedFrame(loan,
                  get_bucket_lcr_flat(loan, value_type),
                  get_bucket_nsfr_flat(loan, value_type),
                  get_bucket_irrbb_flat(loan, value_type),
                  DaysBetween(loan.reporting_date, loan.end_date))

\* the body of the loop of Extractor._process_amount for one row
Combined(row, has_method, value_type) ==
    CombinedOf(LoanOf(row, has_method), value_type)

RECURSIVE AllRows(_)
AllRows(frames) ==
    IF frames = << >> THEN << >> ELSE Head(frames).data \o AllRows(Tail(frames))

\* pd.concat(results, ignore_index=True): fails on an empty list; frames
\* with the same columns are stacked; frames with different columns are
\* reindexed to the union of the columns, which fails on a frame that has
\* duplicate column names (the frames of this program differ only when one
\* of them has the duplicated "bucket" and "value" columns)
concat_rows(frames) ==
    IF frames = << >> THEN Failed("ValueError: No objects to concatenate")
    ELSE IF \A i \in DOMAIN frames : frames[i].columns = frames[1].columns
         THEN Result(DataFrame(frames[1].columns, AllRows(frames)))
    ELSE Failed("InvalidIndexError")

(***************************************************************************)
(* Date inputs                                                             *)
(***************************************************************************)
GridDays == {1, 15, 28, 29, 30, 31}

\* the date k months after dt, on the same day of the month (dt.d <= 28)
AddMonths(dt, k) ==
    LET n == (dt.y * 12 + (dt.m - 1)) + k
    IN  Date(n \div 12, (n % 12) + 1, dt.d)

RefDates == {dt \in [y : {2023, 2024}, m : {1, 2, 12}, d : GridDays] : IsDate(dt)}

NearDates == {dt \in [y : {2023, 2024, 2025}, m : 1..12, d : GridDays] : IsDate(dt)}

\* dates whose month difference to January 2024 is an edge of the IRRBB
\* table or one more
EdgeDates ==
    {AddMonths(Date(2024, 1, 15), e + k) : e \in Range(MONTH_EDGES), k \in {0, 1}}

FarDates ==
    {Date(2023 + LongTermYears, 1, 31), Date(2024 + LongTermYears, 2, 28)}

TargetDates == NearDates \cup EdgeDates \cup FarDates

(***************************************************************************)
(* Loan inputs                                                             *)
(***************************************************************************)
Rates == {[num |-> 0, den |-> 100], [num |-> 12, den |-> 100], [num |-> 10, den |-> 100]}

Methods == {"annuity", "flat", "linear", NaN}

\* Loan.installment is a text: the extractor applies str() and turns a blank
\* cell into "no"
Installments == {"yes", "no", "YES", "maybe"}

NearLoans ==
    [reporting_date : {Date(2024, 1, 1), Date(2024, 1, 31), Date(2024, 2, 29)},
     end_date       : {Date(2023, 12, 31), Date(2024, 1, 31), Date(2024, 2, 15),
                       Date(2024, 3, 31), Date(2024, 4, 30)},
     account_id     : {1},
     outstanding    : {100000, 100001},
     interest_rate  : Rates,
     installment    : Installments,
     method         : Methods]

\* a one-year loan of 1 200 000.00 at 12 %
YearLoans ==
    [reporting_date : {Date(2024, 1, 1)},
     end_date       : {Date(2025, 1, 1)},
     account_id     : {1},
     outstanding    : {120000000},
     interest_rate  : {[num |-> 12, den |-> 100]},
     installment    : {"yes", "no"},
     method         : {"flat"}]

FarLoans ==
    [reporting_date : {Date(2024, 1, 1)},
     end_date       : {Date(2023 + LongTermYears, 2, 28)},
     account_id     : {1},
     outstanding    : {1200000},
     interest_rate  : {[num |-> 12, den |-> 100]},
     installment    : {"yes", "no"},
     method         : {"flat"}]

\* annuity loans of 1.00 and of 25 000.00 over two and three periods
SmallLoans ==
    [reporting_date : {Date(2024, 1, 1)},
     end_date       : {Date(2024, 2, 15), Date(2024, 3, 31)},
     account_id     : {1},
     outstanding    : {100, 2500000},
     interest_rate  : {[num |-> 12, den |-> 100], [num |-> 10, den |-> 100]},
     installment    : {"yes"},
     method         : {"annuity"}]

\* an annuity at a non-zero rate is enumerated up to MaxAnnuityPeriods periods
Enumerated(loan) ==
    (Lower(loan.method) = "annuity" /\ Lower(loan.installment) = "yes"
        /\ loan.interest_rate.num # 0)
    => Len(generate_payment_dates(loan.reporting_date, loan.end_date)) <= MaxAnnuityPeriods

Loans ==
    {loan \in NearLoans \cup YearLoans \cup FarLoans \cup SmallLoans : Enumerated(loan)}

ValueTypes == {"principal", "interest", "total"}

\* the input rows of a portfolio sheet; Installment and Method may be blank
RowTemplates ==
    LET row(rd, ed, inst, meth) ==
            [reporting_date |-> rd, end_date |-> ed, account_id |-> 0,
             outstanding |-> 100000, interest_rate |-> [num |-> 12, den |-> 100],
             installment |-> inst, method |-> meth]
    IN  {row(Date(2024, 1, 1), Date(2024, 3, 31), NaN, "annuity"),
         row(Date(2024, 1, 1), Date(2024, 3, 31), "yes", "annuity"),
         row(Date(2024, 1, 1), Date(2024, 4, 30), "yes", "flat"),
         row(Date(2024, 1, 31), Date(2024, 1, 31), "yes", "annuity"),
         row(Date(2024, 1, 1), Date(2024, 3, 31), "maybe", "annuity"),
         row(Date(2024, 1, 1), Date(2024, 3, 31), "yes", "linear"),
         row(Date(2024, 1, 1), Date(2024, 3, 31), "no", NaN)}

\* the sheets of n rows; Account ID is the position of the row
Sheets(n) ==
    {[i \in 1..n |-> [t[i] EXCEPT !.account_id = i]] : t \in [1..n -> RowTemplates]}

(***************************************************************************)
(* State                                                                   *)
(***************************************************************************)
VARIABLES
    d_from,          \* SpecDate: reporting_date / start_date argument
    d_to,            \* SpecDate: end_date argument
    d_op,            \* SpecDate: the function applied, "none" before any
    d_dates,         \* SpecDate: result of generate_payment_dates
    d_bucket,        \* SpecDate: result of the classifier applied
    c_loan,          \* Spec: the Loan of the Amortization object
    c_op,            \* Spec: the method called, "none" before any
    c_vt,            \* Spec: its value_type argument
    c_sched,         \* Spec: what self.schedule() returned or raised
    c_res,           \* Spec: what the method returned or raised
    p_df,            \* SpecPortfolio: Extractor.df, the input rows
    p_has_method,    \* SpecPortfolio: whether the sheet has a Method column
    p_pc,            \* SpecPortfolio: "principal", "interest", "done", "failed"
    p_i,             \* SpecPortfolio: the next row of the iterrows loop
    p_results,       \* SpecPortfolio: the local list results
    p_principal_df,  \* SpecPortfolio: Extractor.principal_df
    p_interest_df,   \* SpecPortfolio: Extractor.interest_df
    p_error          \* SpecPortfolio: the exception that ended the run

dvars == <<d_from, d_to, d_op, d_dates, d_bucket>>
cvars == <<c_loan, c_op, c_vt, c_sched, c_res>>
pvars == <<p_df, p_has_method, p_pc, p_i, p_results, p_principal_df,
           p_interest_df, p_error>>
vars == <<dvars, cvars, pvars>>

NoFrame == DataFrame(<< >>, << >>)

DateIdle ==
    /\ d_from = Date(2024, 1, 1)
    /\ d_to = Date(2024, 1, 1)
    /\ d_op = "idle"
    /\ d_dates = << >>
    /\ d_bucket = "none"

CalcIdle ==
    /\ c_loan = [account_id |-> 0]
    /\ c_op = "idle"
    /\ c_vt = "none"
    /\ c_sched = Returned(<< >>)
    /\ c_res = Result(NoFrame)

PortfolioIdle ==
    /\ p_df = << >>
    /\ p_has_method = TRUE
    /\ p_pc = "idle"
    /\ p_i = 1
    /\ p_results = << >>
    /\ p_principal_df = NoFrame
    /\ p_interest_df = NoFrame
    /\ p_error = "none"

(***************************************************************************)
(* Specification SpecDate: the date generator and the stand-alone          *)
(* classifiers applied to a pair of dates                                  *)
(***************************************************************************)
DateInit ==
    /\ d_from \in RefDates
    /\ d_to \in TargetDates
    /\ d_op = "none"
    /\ d_dates = << >>
    /\ d_bucket = "none"
    /\ CalcIdle
    /\ PortfolioIdle

GeneratePaymentDates ==
    /\ d_op = "none"
    /\ d_op' = "generate_payment_dates"
    /\ d_dates' = generate_payment_dates(d_from, d_to)
    /\ UNCHANGED <<d_from, d_to, d_bucket, cvars, pvars>>

IrrbbGetBucket ==
    /\ d_op = "none"
    /\ d_op' = "irrbb_get_bucket"
    /\ d_bucket' = BucketIRRBB_get_bucket(d_from, d_to)
    /\ UNCHANGED <<d_from, d_to, d_dates, cvars, pvars>>

LcrGetBucket ==
    /\ d_op = "none"
    /\ d_op' = "lcr_get_bucket"
    /\ d_bucket' = BucketLCR_get_bucket(d_from, d_to)
    /\ UNCHANGED <<d_from, d_to, d_dates, cvars, pvars>>

NsfrGetBucket ==
    /\ d_op = "none"
    /\ d_op' = "nsfr_get_bucket"
    /\ d_bucket' = BucketNSFR_get_bucket(d_from, d_to)
    /\ UNCHANGED <<d_from, d_to, d_dates, cvars, pvars>>

DateNext ==
    \/ GeneratePaymentDates
    \/ IrrbbGetBucket
    \/ LcrGetBucket
    \/ NsfrGetBucket

SpecDate == DateInit /\ [][DateNext]_vars

(***************************************************************************)
(* Specification Spec: the methods of an Amortization object called on a   *)
(* loan                                                                    *)
(***************************************************************************)
Init ==
    /\ c_loan \in Loans
    /\ c_op = "none"
    /\ c_vt = "none"
    /\ c_sched = Returned(<< >>)
    /\ c_res = Result(NoFrame)
    /\ DateIdle
    /\ PortfolioIdle

Schedule ==
    /\ c_op = "none"
    /\ c_op' = "schedule"
    /\ c_sched' = schedule(c_loan)
    /\ UNCHANGED <<c_loan, c_vt, c_res, dvars, pvars>>

\* a call of an aggregator: it calls self.schedule() itself
Call(op, value_type, result) ==
    /\ c_op = "none"
    /\ c_op' = op
    /\ c_vt' = value_type
    /\ c_sched' = schedule(c_loan)
    /\ c_res' = result
    /\ UNCHANGED <<c_loan, dvars, pvars>>

GetBucketIrrbb ==
    \E vt \in ValueTypes : Call("get_bucket_irrbb", vt, get_bucket_irrbb(c_loan, vt))

GetBucketLcr ==
    \E vt \in ValueTypes : Call("get_bucket_lcr", vt, get_bucket_lcr(c_loan, vt))

GetBucketNsfr ==
    \E vt \in ValueTypes : Call("get_bucket_nsfr", vt, get_bucket_nsfr(c_loan, vt))

GetBucketIrrbbFlat ==
    \E vt \in ValueTypes :
        Call("get_bucket_irrbb_flat", vt, get_bucket_irrbb_flat(c_loan, vt))

GetBucketLcrFlat ==
    \E vt \in ValueTypes :
        Call("get_bucket_lcr_flat", vt, get_bucket_lcr_flat(c_loan, vt))

GetBucketNsfrFlat ==
    \E vt \in ValueTypes :
        Call("get_bucket_nsfr_flat", vt, get_bucket_nsfr_flat(c_loan, vt))

Next ==
    \/ Schedule
    \/ GetBucketIrrbb
    \/ GetBucketLcr
    \/ GetBucketNsfr
    \/ GetBucketIrrbbFlat
    \/ GetBucketLcrFlat
    \/ GetBucketNsfrFlat

Spec == Init /\ [][Next]_vars

(***************************************************************************)
(* Specification SpecPortfolio: Extractor.process over a sheet, one step   *)
(* per iteration of the loop of _process_amount and one per final concat   *)
(***************************************************************************)
PortfolioInit ==
    /\ p_df \in UNION {Sheets(n) : n \in 0..MaxLoans}
    /\ p_has_method \in BOOLEAN
    /\ p_pc = "principal"
    /\ p_i = 1
    /\ p_results = << >>
    /\ p_principal_df = NoFrame
    /\ p_interest_df = NoFrame
    /\ p_error = "none"
    /\ DateIdle
    /\ CalcIdle

Running == p_pc \in {"principal", "interest"}

\* an exception leaves _process_amount and process: nothing catches it
Abort(e) ==
    /\ p_pc' = "failed"
    /\ p_error' = e
    /\ UNCHANGED <<p_df, p_has_method, p_i, p_results, p_principal_df, p_interest_df>>

\* one iteration of the loop: the combined frame of the row is appended
Iterate(combined) ==
    /\ combined.status = "ok"
    /\ p_results' = Append(p_results, combined.df)
    /\ p_i' = p_i + 1
    /\ UNCHANGED <<p_df, p_has_method, p_pc, p_principal_df, p_interest_df, p_error>>

\* what _process_amount returns is assigned by process
Assign(table) ==
    /\ table.status = "ok"
    /\ IF p_pc = "principal"
       THEN /\ p_principal_df' = table.df
            /\ p_pc' = "interest"
            /\ UNCHANGED p_interest_df
       ELSE /\ p_interest_df' = table.df
            /\ p_pc' = "done"
            /\ UNCHANGED p_principal_df
    /\ p_i' = 1
    /\ p_results' = << >>
    /\ UNCHANGED <<p_df, p_has_method, p_error>>

\* a call that raised
Raise(result) ==
    /\ result.status # "ok"
    /\ Abort(result.status)

ProcessRow ==
    /\ Running
    /\ p_i <= Len(p_df)
    /\ Iterate(Combined(p_df[p_i], p_has_method, p_pc))
    /\ UNCHANGED <<dvars, cvars>>

ProcessRowRaises ==
    /\ Running
    /\ p_i <= Len(p_df)
    /\ Raise(Combined(p_df[p_i], p_has_method, p_pc))
    /\ UNCHANGED <<dvars, cvars>>

FinishAmount ==
    /\ Running
    /\ p_i > Len(p_df)
    /\ Assign(concat_rows(p_results))
    /\ UNCHANGED <<dvars, cvars>>

FinishAmountRaises ==
    /\ Running
    /\ p_i > Len(p_df)
    /\ Raise(concat_rows(p_results))
    /\ UNCHANGED <<dvars, cvars>>

PortfolioNext ==
    \/ ProcessRow
    \/ ProcessRowRaises
    \/ FinishAmount
    \/ FinishAmountRaises

SpecPortfolio == PortfolioInit /\ [][PortfolioNext]_vars

(***************************************************************************)
(* Properties                                                              *)
(***************************************************************************)
TallOps == {"get_bucket_irrbb", "get_bucket_lcr", "get_bucket_nsfr"}
FlatOps == {"get_bucket_irrbb_flat", "get_bucket_lcr_flat", "get_bucket_nsfr_flat"}

TaxonomyLabels(op) ==
    IF op \in {"get_bucket_irrbb", "get_bucket_irrbb_flat"} THEN IRRBB_LABELS
    ELSE IF op \in {"get_bucket_lcr", "get_bucket_lcr_flat"} THEN LCR_LABELS
    ELSE NSFR_LABELS

TaxonomyBucketOf(op, reporting_date, row) ==
    IF op \in {"get_bucket_irrbb", "get_bucket_irrbb_flat"}
    THEN IrrbbBucketOf(reporting_date, row)
    ELSE IF op \in {"get_bucket_lcr", "get_bucket_lcr_flat"}
    THEN LcrBucketOf(reporting_date, row)
    ELSE NsfrBucketOf(reporting_date, row)

\* the sum of f over the rows of a schedule
SumOfRows(rows, f(_)) == SumSeq([i \in 1..Len(rows) |-> f(rows[i])], 1, Len(rows))

RowTotal(row) == row.principal + row.interest

\* the sum of the value column of a tall frame
TallTotal(df) == SumSeq([i \in 1..Height(df) |-> df.data[i][2]], 1, Height(df))

\* x is n / d rounded to the nearest whole number (d > 0)
Nearest(x, n, d) ==
    LET e == x * d - n IN (IF e >= 0 THEN 2 * e ELSE -2 * e) <= d

\* C1: for a loan with a non-empty schedule, the tall aggregation with
\* value = total of each taxonomy sums over its labels to the sum of
\* principal + interest over all schedule rows: every row is classified into
\* a label of the taxonomy's label set and, for IRRBB, every row more than 30
\* days out has a month difference of at least 1.
C1_TallTotalPreserved ==
    (c_op \in TallOps /\ c_vt = "total" /\ c_res.status = "ok"
        /\ c_sched.rows # << >>)
    => /\ TallTotal(c_res.df) = SumOfRows(c_sched.rows, RowTotal)
       /\ \A i \in 1..Len(c_sched.rows) :
            /\ TaxonomyBucketOf(c_op, c_loan.reporting_date, c_sched.rows[i])
                  \in Range(TaxonomyLabels(c_op))
            /\ (c_op = "get_bucket_irrbb"
                  /\ DaysBetween(c_loan.reporting_date, c_sched.rows[i].payment_date) > 30)
               => MonthsBetween(c_loan.reporting_date, c_sched.rows[i].payment_date) >= 1

\* a total IRRBB aggregation of a schedule that has a row 31 days or more
\* out in the month after the reporting month
C1_Witness ==
    /\ c_op = "get_bucket_irrbb" /\ c_vt = "total" /\ c_res.status = "ok"
    /\ Len(c_sched.rows) >= 2
    /\ TallTotal(c_res.df) > 0
    /\ \E i \in 1..Len(c_sched.rows) :
          /\ DaysBetween(c_loan.reporting_date, c_sched.rows[i].payment_date) > 30
          /\ MonthsBetween(c_loan.reporting_date, c_sched.rows[i].payment_date) = 1
          /\ RowTotal(c_sched.rows[i]) > 0

\* the value a frame holds for a label, in either layout
LabelValue(df, label) ==
    IF df.columns = <<"bucket", "value">>
    THEN df.data[CHOOSE i \in 1..Height(df) : df.data[i][1] = label][2]
    ELSE df.data[1][CHOOSE k \in 1..Width(df) : df.columns[k] = label]

\* C2: every aggregator result carries the taxonomy's full label set in
\* canonical order, 0 for a label that received no row, in the layout that
\* was requested: a tall function returns one row per label, a flattened
\* function a single record with one field per label, also when the
\* schedule is empty (then all values are 0).
C2_FullLabelSetInRequestedLayout ==
    (c_op \in TallOps \cup FlatOps /\ c_res.status = "ok")
    => LET labels == TaxonomyLabels(c_op)
           df == c_res.df
           unused(label) ==
               \A i \in 1..Len(c_sched.rows) :
                  TaxonomyBucketOf(c_op, c_loan.reporting_date, c_sched.rows[i]) # label
       IN  /\ IF c_op \in TallOps
              THEN /\ df.columns = <<"bucket", "value">>
                   /\ Height(df) = Len(labels)
                   /\ \A i \in 1..Len(labels) : df.data[i][1] = labels[i]
              ELSE /\ df.columns = labels
                   /\ Height(df) = 1
           /\ \A i \in 1..Len(labels) :
                 unused(labels[i]) => LabelValue(df, labels[i]) = 0

\* C3: after a portfolio run, each of the two output tables holds exactly
\* one record per input loan, in input order.
C3_OneRecordPerLoan ==
    (p_pc = "done")
    => /\ Height(p_principal_df) = Len(p_df)
       /\ Height(p_interest_df) = Len(p_df)
       /\ \A i \in 1..Len(p_df) :
             /\ p_principal_df.data[i][1] = p_df[i].account_id
             /\ p_interest_df.data[i][1] = p_df[i].account_id

\* the label of a month difference m >= 1 by the intervals [1,3], (3,6],
\* ..., (240, inf)
IntervalLabel(m) ==
    IF m <= 3 THEN "1-3 bulan" ELSE IF m <= 6 THEN "3-6 bulan"
    ELSE IF m <= 9 THEN "6-9 bulan" ELSE IF m <= 12 THEN "9-12 bulan"
    ELSE IF m <= 18 THEN "1-1.5Y" ELSE IF m <= 24 THEN "1.5-2Y"
    ELSE IF m <= 36 THEN "2-3Y" ELSE IF m <= 48 THEN "3-4Y"
    ELSE IF m <= 60 THEN "4-5Y" ELSE IF m <= 72 THEN "5-6Y"
    ELSE IF m <= 84 THEN "6-7Y" ELSE IF m <= 96 THEN "7-8Y"
    ELSE IF m <= 108 THEN "8-9Y" ELSE IF m <= 120 THEN "9-10Y"
    ELSE IF m <= 180 THEN "10-15Y" ELSE IF m <= 240 THEN "15-20Y"
    ELSE "> 20Y"

\* C4: BucketIRRBB.get_bucket returns, for a payment date not before the
\* reference date, "<= 1 bulan" when at most 30 days lie between them and
\* otherwise the label of the interval of the month difference, the first
\* interval closed at 1: a month difference of 1 more than 30 days out is
\* "1-3 bulan".
C4_IrrbbGetBucketLabel ==
    (d_op = "irrbb_get_bucket" /\ DateLE(d_from, d_to))
    => /\ d_bucket \in Range(IRRBB_LABELS)
       /\ d_bucket = IF DaysBetween(d_from, d_to) <= 30 THEN "<= 1 bulan"
                     ELSE IntervalLabel(MonthsBetween(d_from, d_to))

\* C5: generate_payment_dates emits dates of consecutive calendar months,
\* each on the anchor day clamped to the length of its month, strictly
\* increasing, none after end_date, the first one in the month after the
\* reporting month (with the year roll-over) when the reporting day is on or
\* after the anchor day and in the reporting month otherwise.
C5_PaymentDates ==
    (d_op = "generate_payment_dates")
    => LET n == Len(d_dates)
           anchor_day == d_to.d
       IN  /\ \A i \in 1..n :
                 /\ IsDate(d_dates[i])
                 /\ d_dates[i].d = Min(anchor_day, DaysInMonth(d_dates[i].y, d_dates[i].m))
                 /\ DateLE(d_dates[i], d_to)
           /\ \A i \in 1..(n - 1) :
                 /\ DateLT(d_dates[i], d_dates[i + 1])
                 /\ MonthsBetween(d_dates[i], d_dates[i + 1]) = 1
           /\ n >= 1 =>
                 IF d_from.d >= anchor_day
                 THEN IF d_from.m = 12
                      THEN d_dates[1].y = d_from.y + 1 /\ d_dates[1].m = 1
                      ELSE d_dates[1].y = d_from.y /\ d_dates[1].m = d_from.m + 1
                 ELSE d_dates[1].y = d_from.y /\ d_dates[1].m = d_from.m

\* dates generated from a December reporting day on or after the anchor
\* day, one of them clamped to a shorter month
C5_Witness ==
    /\ d_op = "generate_payment_dates"
    /\ Len(d_dates) >= 3
    /\ d_from.m = 12 /\ d_from.d >= d_to.d
    /\ \E i \in 1..Len(d_dates) : d_dates[i].d < d_to.d

\* C6: schedule() fails exactly when end_date > reporting_date and either
\* installment is not yes/no or installment is yes and method is not
\* annuity/flat; a loan with end_date <= reporting_date never fails, whatever
\* its method and installment, and yields an empty schedule; a loan with
\* installment = no never fails because of its method.
C6_ScheduleFailsExactlyOnInvalidFlags ==
    (c_op = "schedule")
    => LET installment == Lower(c_loan.installment)
           method == Lower(c_loan.method)
           live == DateLT(c_loan.reporting_date, c_loan.end_date)
       IN  /\ (c_sched.status # "ok")
                 <=> (live /\ (\/ installment \notin {"yes", "no"}
                               \/ (installment = "yes" /\ method \notin {"annuity", "flat"})))
           /\ ~live => (c_sched.status = "ok" /\ c_sched.rows = << >>)

\* the errors a loan's own terms raise in schedule()
LoanErrors ==
    {"ValueError: method must be 'annuity' or 'flat'",
     "ValueError: installment must be 'yes' or 'no'"}

HasRecord(df, account_id) == \E k \in 1..Height(df) : df.data[k][1] = account_id

\* C7: a failure in one loan's computation (invalid method or installment
\* flag) does not abort the processing of the other loans: every loan of
\* the sheet that is itself valid still gets its output record.
C7_FailureDoesNotAbortSiblings ==
    (p_pc \in {"done", "failed"} /\ p_error \in LoanErrors)
    => \A i \in 1..Len(p_df) :
          (schedule(LoanOf(p_df[i], p_has_method)).status = "ok")
          => /\ HasRecord(p_principal_df, p_df[i].account_id)
             /\ HasRecord(p_interest_df, p_df[i].account_id)

\* C8: in the schedule of a bullet loan (installment = no) of N >= 1
\* periods, every period but the last has principal 0 and remaining balance
\* the original outstanding, the last period has principal the original
\* outstanding and remaining balance 0, and the interest of every period is
\* the same amount, outstanding x annual_rate / 12 to the cent; also for
\* N = 1.
C8_BulletSchedule ==
    (c_op = "schedule" /\ c_sched.status = "ok" /\ c_sched.rows # << >>
        /\ Lower(c_loan.installment) = "no")
    => LET rows == c_sched.rows
           n == Len(rows)
           p == c_loan.outstanding
       IN  \A i \in 1..n :
              /\ rows[i].period = i
              /\ i < n => (rows[i].principal = 0 /\ rows[i].remaining_balance = p)
              /\ i = n => (rows[i].principal = p /\ rows[i].remaining_balance = 0)
              /\ rows[i].interest = rows[1].interest
              /\ Nearest(rows[i].interest, p * c_loan.interest_rate.num,
                         12 * c_loan.interest_rate.den)

\* a bullet schedule of several periods whose interest is not a whole
\* number of cents before rounding
C8_Witness ==
    /\ c_op = "schedule" /\ c_sched.status = "ok"
    /\ Lower(c_loan.installment) = "no"
    /\ Len(c_sched.rows) >= 2
    /\ c_sched.rows[1].interest > 0
    /\ (c_loan.outstanding * c_loan.interest_rate.num) % (12 * c_loan.interest_rate.den) # 0

\* C9: in the schedule of a flat loan (installment = yes, method = flat) of
\* N periods, principal (outstanding / N to the cent), interest (outstanding
\* x annual_rate / 12 to the cent, on the original principal) and payment
\* are each the same in all N periods; the remaining balance after period i
\* is the outstanding less i x outstanding / N to the cent, never negative,
\* and 0 after period N.
C9_FlatSchedule ==
    (c_op = "schedule" /\ c_sched.status = "ok" /\ c_sched.rows # << >>
        /\ Lower(c_loan.installment) = "yes" /\ Lower(c_loan.method) = "flat")
    => LET rows == c_sched.rows
           n == Len(rows)
           p == c_loan.outstanding
       IN  /\ \A i \in 1..n :
                 /\ rows[i].principal = rows[1].principal
                 /\ rows[i].interest = rows[1].interest
                 /\ rows[i].payment = rows[1].payment
                 /\ Nearest(rows[i].principal, p, n)
                 /\ Nearest(rows[i].interest, p * c_loan.interest_rate.num,
                            12 * c_loan.interest_rate.den)
                 /\ rows[i].remaining_balance >= 0
                 /\ Nearest(rows[i].remaining_balance, p * (n - i), n)
           /\ rows[n].remaining_balance = 0

\* a flat schedule of several periods with interest, whose principal does
\* not divide evenly over the periods
C9_Witness ==
    /\ c_op = "schedule" /\ c_sched.status = "ok"
    /\ Lower(c_loan.installment) = "yes" /\ Lower(c_loan.method) = "flat"
    /\ Len(c_sched.rows) >= 2
    /\ c_sched.rows[1].interest > 0
    /\ c_loan.outstanding % Len(c_sched.rows) # 0

\* the rows of a schedule at most 30 days, or more than 30 days, after the
\* reporting date
Within30(row) == DaysBetween(c_loan.reporting_date, row.payment_date) <= 30

PrincipalWithin30(row) == IF Within30(row) THEN row.principal ELSE 0
PrincipalBeyond30(row) == IF Within30(row) THEN 0 ELSE row.principal
InterestWithin30(row) == IF Within30(row) THEN row.interest ELSE 0
InterestBeyond30(row) == IF Within30(row) THEN 0 ELSE row.interest
TotalWithin30(row) == IF Within30(row) THEN row.principal + row.interest ELSE 0

\* C10: get_bucket_lcr_flat with value = interest counts the interest of the
\* "<=30D" rows only, so ">30D" is 0; with value = total ">30D" is the sum of
\* the principal only of its rows and "<=30D" the sum of principal + interest
\* of its rows; with value = principal both are the per-bucket principal
\* sums, equal to the tall LCR aggregation.
C10_LcrFlatValues ==
    (c_op = "get_bucket_lcr_flat" /\ c_res.status = "ok")
    => LET rows == c_sched.rows
           near == LabelValue(c_res.df, "<=30D")
           far == LabelValue(c_res.df, ">30D")
           tall == get_bucket_lcr(c_loan, "principal").df
       IN  /\ c_vt = "interest" =>
                 (far = 0 /\ near = SumOfRows(rows, InterestWithin30))
           /\ c_vt = "total" =>
                 /\ far = SumOfRows(rows, PrincipalBeyond30)
                 /\ near = SumOfRows(rows, TotalWithin30)
           /\ c_vt = "principal" =>
                 /\ near = SumOfRows(rows, PrincipalWithin30)
                 /\ far = SumOfRows(rows, PrincipalBeyond30)
                 /\ near = LabelValue(tall, "<=30D")
                 /\ far = LabelValue(tall, ">30D")

\* a flattened LCR aggregation by interest of a schedule that has interest
\* on both sides of the 30-day line
C10_Witness ==
    /\ c_op = "get_bucket_lcr_flat" /\ c_res.status = "ok" /\ c_vt = "interest"
    /\ SumOfRows(c_sched.rows, InterestWithin30) > 0
    /\ SumOfRows(c_sched.rows, InterestBeyond30) > 0

\* a schedule of an annuity loan (installment = yes, method = annuity) at a
\* monthly rate r > 0 with at least two payment dates
AnnuityCase ==
    /\ c_op = "schedule" /\ c_sched.status = "ok"
    /\ Lower(c_loan.installment) = "yes" /\ Lower(c_loan.method) = "annuity"
    /\ c_loan.interest_rate.num > 0
    /\ Len(c_sched.rows) >= 2

\* C11: for an annuity loan with monthly rate r > 0 and N >= 2 payment
\* dates, the reported payment is the same value in every period, the
\* reported interest strictly decreases from each period to the next, the
\* reported principal strictly increases from each period to the next, and
\* remaining_balance is never negative.
C11_AnnuityStrictlyMonotone ==
    AnnuityCase
    => LET rows == c_sched.rows
           n == Len(rows)
       IN  /\ \A i \in 1..n :
                 /\ rows[i].payment = rows[1].payment
                 /\ rows[i].remaining_balance >= 0
           /\ \A i \in 1..(n - 1) :
                 /\ rows[i + 1].interest < rows[i].interest
                 /\ rows[i + 1].principal > rows[i].principal

\* the amount p * x / d is more than one cent (p in cents, x >= 0, d > 0)
MoreThanACent(p, x, d) ==
    LET qr == MulDivMod(x, p, d)
    IN  qr[1] > 1 \/ (qr[1] = 1 /\ qr[2] > 0)

\* C11, as amended: for an annuity loan with monthly rate r > 0 and N >= 2
\* payment dates, the reported payment is the same value in every period,
\* the reported interest never increases and the reported principal never
\* decreases from each period to the next, each changing strictly wherever
\* the unrounded interest of the two periods differs by more than 0.01, and
\* remaining_balance is never negative.
C11_AnnuityMonotoneToTheCent ==
    AnnuityCase
    => LET rows == c_sched.rows
           n == Len(rows)
           r == MonthlyRate(c_loan.interest_rate)
           drop(i) == AnnuityInterest(r, n, i) - AnnuityInterest(r, n, i + 1)
       IN  /\ \A i \in 1..n :
                 /\ rows[i].payment = rows[1].payment
                 /\ rows[i].remaining_balance >= 0
           /\ \A i \in 1..(n - 1) :
                 /\ rows[i + 1].interest <= rows[i].interest
                 /\ rows[i + 1].principal >= rows[i].principal
                 /\ MoreThanACent(c_loan.outstanding, drop(i), Pmt(r, n).d)
                      => /\ rows[i + 1].interest < rows[i].interest
                         /\ rows[i + 1].principal > rows[i].principal

\* an annuity schedule of three periods whose interest falls by more than a
\* cent from the first period to the second
C11_Witness ==
    /\ AnnuityCase
    /\ Len(c_sched.rows) >= 3
    /\ c_sched.rows[2].interest < c_sched.rows[1].interest
    /\ c_sched.rows[2].principal > c_sched.rows[1].principal

\* C12: schedule() returns an empty schedule if and only if end_date <=
\* reporting_date: whenever end_date > reporting_date the date generator
\* emits at least one payment date, so a returned schedule has N >= 1 rows,
\* one per generated date with periods numbered 1..N in date order, and the
\* divisions by N never divide by zero.
C12_EmptyIffExpired ==
    (c_op = "schedule")
    => LET dates == generate_payment_dates(c_loan.reporting_date, c_loan.end_date)
           rows == c_sched.rows
       IN  IF DateLE(c_loan.end_date, c_loan.reporting_date)
           THEN c_sched = Returned(<< >>)
           ELSE /\ Len(dates) >= 1
                /\ c_sched.status # "ZeroDivisionError"
                /\ c_sched.status = "ok"
                     => /\ Len(rows) = Len(dates)
                        /\ \A i \in 1..Len(rows) :
                              /\ rows[i].period = i
                              /\ rows[i].payment_date = dates[i]
                              /\ i > 1 => DateLT(dates[i - 1], dates[i])

=============================================================================
